---- MODULE Spec2Model ----
(***************************************************************************)
(* Model of the two maintenance scripts of mineral_map that patch the      *)
(* exported Leaflet page index.html:                                       *)
(*   add_appearance_control.py  (the modifier, AppearanceControlModifier)  *)
(*   fix_appearance_control.py  (the fixup pass)                           *)
(*                                                                         *)
(* The page is a text that the scripts scan with regular expressions.  It  *)
(* is modelled as the statements those expressions recognise, kept in      *)
(* document order per kind of statement.  Statements have the form the     *)
(* exporter writes them in (var x = L.tileLayer("url", {..}),              *)
(* var x = L.geoJson(null, {..}), identifiers unique per declaration).     *)
(* Texts (names, colours, numbers) are sequences of characters or tokens.  *)
(***************************************************************************)
EXTENDS Integers, Sequences, FiniteSets, TLC

\* ------------------------------------------------------------------ bounds
MaxTiles == 5      \* tile-layer declarations in a page
MaxCalls == 3      \* tile-layer attach calls in a page
MaxGeo   == 2      \* vector layers in a page
MaxRuns  == 3      \* script runs in a behaviour
MaxClock == 1      \* last second of the wall clock

\* --------------------------------------------------------------- constants
HardCodedMap == "map_d2a376f3bebc49e2468588d70e0e50c9"
OtherMap     == "map_a1"
NoTs         == -1

Field(k, v) == [key |-> k, val |-> v]
Msg(t, a)   == [text |-> t, args |-> a]

Min(S) == CHOOSE x \in S : \A y \in S : x <= y

\* ------------------------------------------------------------ float <-> text
DigitVal(c) ==
    CASE c = "0" -> 0 [] c = "1" -> 1 [] c = "2" -> 2 [] c = "3" -> 3
      [] c = "4" -> 4 [] c = "5" -> 5 [] c = "6" -> 6 [] c = "7" -> 7
      [] c = "8" -> 8 [] c = "9" -> 9
DigitChar(d) ==
    CASE d = 0 -> "0" [] d = 1 -> "1" [] d = 2 -> "2" [] d = 3 -> "3"
      [] d = 4 -> "4" [] d = 5 -> "5" [] d = 6 -> "6" [] d = 7 -> "7"
      [] d = 8 -> "8" [] d = 9 -> "9"

\* float(text) for a literal d[.d[d]], in hundredths
ParseFloat(t) ==
    LET dot == { i \in 1..Len(t) : t[i] = "." }
        ip  == IF dot = {} THEN t ELSE SubSeq(t, 1, Min(dot) - 1)
        fp  == IF dot = {} THEN <<>> ELSE SubSeq(t, Min(dot) + 1, Len(t))
        d1  == IF Len(fp) >= 1 THEN DigitVal(fp[1]) ELSE 0
        d2  == IF Len(fp) >= 2 THEN DigitVal(fp[2]) ELSE 0
        iv  == IF ip = <<>> THEN 0 ELSE DigitVal(ip[1])
    IN  100 * iv + 10 * d1 + d2

\* the text an f-string writes for a float given in hundredths (repr)
FormatFloat(h) ==
    LET iv == h \div 100
        d1 == (h % 100) \div 10
        d2 == h % 10
    IN  <<DigitChar(iv), ".", DigitChar(d1)>>
          \o (IF d2 = 0 THEN <<>> ELSE <<DigitChar(d2)>>)

DefaultColor   == <<"#000000">>
DefaultOpacity == 60

\* --------------------------------------------------------------- the page
(* A page (the text of index.html, or of the buffer self.content):         *)
(*   head     the framework's <script>/<link> tags (the anchors) and the   *)
(*            number of plugin tags after them                             *)
(*   maps     var map_<hex> = L.map(..) declarations, the identifiers      *)
(*   tiles    var tile_layer_<hex> = L.tileLayer("url", {opts..           *)
(*   calls    tile_layer_<hex>.addTo(map_<hex>); statements; depth counts  *)
(*            the comment wrappers around the call text                    *)
(*   funcs    function geo_json_<hex>_styler(feature) {..} and the other   *)
(*            functions, with the objects of their `return {..};`          *)
(*   geos     var geo_json_<hex> = L.geoJson(null, {opts..                 *)
(*   controls the legacy layer-control blocks and the appearance-control   *)
(*            blocks (with the arrays written before them)                 *)
EscGt  == "\\u003e"
EscAmp == "\\u0026"
EscapeTokens == {EscGt, EscAmp}

\* name.replace('\\u003e', '>')
Decode(name) == [i \in 1..Len(name) |-> IF name[i] = EscGt THEN ">" ELSE name[i]]

\* re.sub parses a replacement template: a backslash that starts no known
\* escape raises re.error
BadEscape(text) == \E i \in 1..Len(text) : text[i] \in EscapeTokens

IsLegacy(c)     == c.kind = "legacy"
IsAppearance(c) == c.kind = "appearance"

\* re.findall(r'var (geo_json_[a-f0-9]+) = L\.geoJson', content)
GeoJsonLayers(content) == [i \in 1..Len(content.geos) |-> content.geos[i].id]
\* re.findall(r'var (tile_layer_[a-f0-9]+) = L\.tileLayer', content)
TileLayers(content) == [i \in 1..Len(content.tiles) |-> content.tiles[i].id]

\* the name mapping of the first legacy block: base layers, then overlays
\* (decoded); a later entry for the same variable replaces an earlier one
LayerNames(content) ==
    LET L == { i \in 1..Len(content.controls) : IsLegacy(content.controls[i]) }
    IN  IF L = {} THEN <<>>
        ELSE LET c == content.controls[Min(L)]
             IN  [i \in 1..Len(c.base) |->
                     [kind |-> "tile", id |-> c.base[i].id, name |-> c.base[i].name]]
                 \o [i \in 1..Len(c.overlays) |->
                     [kind |-> "geo", id |-> c.overlays[i].id,
                      name |-> Decode(c.overlays[i].name)]]

ExtractLayerInfo(content) ==
    [geojson_layers |-> GeoJsonLayers(content),
     tile_layers    |-> TileLayers(content),
     layer_names    |-> LayerNames(content)]

\* layer_info['layer_names'].get(layer_id, layer_id)
GeoName(layer_info, id) ==
    LET n == layer_info.layer_names
        H == { i \in 1..Len(n) : n[i].kind = "geo" /\ n[i].id = id }
    IN  IF H = {} THEN <<"geo_json_", DigitChar(id)>>
        ELSE n[CHOOSE i \in H : \A j \in H : j <= i].name

RECURSIVE Flatten(_)
Flatten(ss) == IF ss = <<>> THEN <<>> ELSE Head(ss) \o Flatten(Tail(ss))

\* the first value of a key in a style object, <<>> when the key is absent
FirstVal(body, k) ==
    LET H == { i \in 1..Len(body) : body[i].key = k }
    IN  IF H = {} THEN <<>> ELSE body[Min(H)].val

\* extract_layer_styles: the pattern starts at the layer's styler and runs
\* lazily to the first `return {<non-empty>};` that follows in the text
ExtractLayerStyles(content, layer_id) ==
    LET F  == content.funcs
        S  == { i \in 1..Len(F) : F[i].kind = "styler" /\ F[i].layer = layer_id }
        rs == IF S = {} THEN <<>>
              ELSE Flatten([j \in 1..(Len(F) - Min(S) + 1) |-> F[Min(S) + j - 1].rets])
        M  == { i \in 1..Len(rs) : rs[i] # <<>> }
    IN  IF M = {} THEN [color |-> DefaultColor, opacity |-> DefaultOpacity]
        ELSE LET body == rs[Min(M)]
                 c == FirstVal(body, "fillColor")
                 o == FirstVal(body, "fillOpacity")
             IN  [color   |-> IF c = <<>> THEN DefaultColor ELSE c,
                  opacity |-> IF o = <<>> THEN DefaultOpacity ELSE ParseFloat(o)]

\* the three fields of options_code
OptionsCode(name, st) ==
    <<Field("name", name), Field("color", st.color),
      Field("opacity", FormatFloat(st.opacity))>>

\* one iteration of modify_geojson_layers: re.sub on every definition of
\* layer_id; ok is FALSE when the replacement template raises
ModifyOneLayer(content, layer_info, layer_id) ==
    LET name == GeoName(layer_info, layer_id)
        st   == ExtractLayerStyles(content, layer_id)
        code == OptionsCode(name, st)
    IN  IF BadEscape(name) \/ BadEscape(st.color)
        THEN [ok |-> FALSE, content |-> content]
        ELSE [ok |-> TRUE,
              content |-> [content EXCEPT !.geos =
                  [i \in 1..Len(content.geos) |->
                      IF content.geos[i].id = layer_id
                      THEN [content.geos[i] EXCEPT !.opts = code \o @]
                      ELSE content.geos[i]]]]

RECURSIVE ModifyLayersFrom(_, _, _)
ModifyLayersFrom(r, layer_info, ids) ==
    IF ids = <<>> \/ ~r.ok THEN r
    ELSE ModifyLayersFrom(ModifyOneLayer(r.content, layer_info, Head(ids)),
                          layer_info, Tail(ids))

ModifyGeojsonLayers(content, layer_info) ==
    ModifyLayersFrom([ok |-> TRUE, content |-> content], layer_info,
                     layer_info.geojson_layers)

\* add_plugin_references: one plugin tag after the first anchor of each kind
AddPluginReferences(content) ==
    [content EXCEPT
        !.head.plugin_scripts = IF content.head.script_anchor THEN @ + 1 ELSE @,
        !.head.plugin_css     = IF content.head.css_anchor THEN @ + 1 ELSE @]

\* create_layer_arrays + the appearance_control template
AppearanceBlock(layer_info) ==
    [kind     |-> "appearance",
     base     |-> [i \in 1..Len(layer_info.tile_layers) |->
                      [name |-> <<>>, id |-> layer_info.tile_layers[i]]],
     overlays |-> [i \in 1..Len(layer_info.geojson_layers) |->
                      [name |-> <<>>, id |-> layer_info.geojson_layers[i]]],
     map      |-> HardCodedMap]

\* replace_layer_control: re.sub of every legacy block
ReplaceLayerControl(content, layer_info) ==
    [content EXCEPT !.controls =
        [i \in 1..Len(content.controls) |->
            IF IsLegacy(content.controls[i]) THEN AppearanceBlock(layer_info)
            ELSE content.controls[i]]]

\* ------------------------------------------------------------ the fixup pass
\* MapMatch with a default identifier taken when the pattern finds nothing
MapMatchMut(content) ==
    IF content.maps = <<>> THEN <<HardCodedMap>> ELSE <<Head(content.maps)>>

\* re.search(r'var (map_[a-f0-9]+) = L\.map', content): <<>> when no match
MapMatch(content) == IF content.maps = <<>> THEN <<>> ELSE <<Head(content.maps)>>

\* LayerNamesList with the 'Light Map' entry of the table missing
LayerNamesListMut ==
    << <<"OpenStreetMap">>, <<"Topographic Map">>, <<"Satellite Imagery">> >>

\* list(tile_layer_names.values())
LayerNamesList ==
    << <<"OpenStreetMap">>, <<"Topographic Map">>, <<"Light Map">>,
       <<"Satellite Imagery">> >>

\* the guard `i < len(layer_names_list)` for the i-th layer, i counted from 1
HasTableName(i) == i - 1 < Len(LayerNamesList)

\* re.sub(pattern, add_name, content) for one layer_id: the name field goes
\* right after the opening brace of every definition of layer_id
AddName(content, layer_id, layer_name) ==
    [content EXCEPT !.tiles =
        [k \in 1..Len(content.tiles) |->
            IF content.tiles[k].id = layer_id
            THEN [content.tiles[k] EXCEPT !.opts = <<Field("name", layer_name)>> \o @]
            ELSE content.tiles[k]]]

RECURSIVE NameTilesFrom(_, _, _)
\* the loop `for i, layer_id in enumerate(tile_layers)` from position i on
NameTilesFrom(content, tile_layers, i) ==
    IF i > Len(tile_layers) THEN content
    ELSE NameTilesFrom(
            IF HasTableName(i)
            THEN AddName(content, tile_layers[i], LayerNamesList[i])
            ELSE content,
            tile_layers, i + 1)

NameTileLayers(content) == NameTilesFrom(content, TileLayers(content), 1)

\* re.findall(tile_layer_addto_pattern, content): the call texts in document
\* order; the pattern also matches a call inside a comment
AddToCalls(content) ==
    [i \in 1..Len(content.calls) |->
        [tile |-> content.calls[i].tile, map |-> content.calls[i].map]]

SameText(c, call) == c.tile = call.tile /\ c.map = call.map

\* content.replace(call, '// call // Commented out ..', 1): the first
\* occurrence of the call text in the page gets one more wrapper
ReplaceFirst(content, call) ==
    LET H == { k \in 1..Len(content.calls) : SameText(content.calls[k], call) }
    IN  IF H = {} THEN content
        ELSE [content EXCEPT !.calls[Min(H)].depth = @ + 1]

RECURSIVE CommentFrom(_, _, _)
\* the loop `for i, call in enumerate(addto_calls)`, `if i > 0`
CommentFrom(content, addto_calls, i) ==
    IF i > Len(addto_calls) THEN content
    ELSE CommentFrom(IF i > 1 THEN ReplaceFirst(content, addto_calls[i]) ELSE content,
                     addto_calls, i + 1)

CommentOutAddTo(content) ==
    LET addto_calls == AddToCalls(content)
    IN  IF Len(addto_calls) > 1 THEN CommentFrom(content, addto_calls, 1)
        ELSE content

\* re.search(appearance_pattern, content): the attach target of the first
\* appearance-control block, <<>> when there is none
AppearanceMatch(content) ==
    LET A == { i \in 1..Len(content.controls) : IsAppearance(content.controls[i]) }
    IN  IF A = {} THEN <<>> ELSE <<content.controls[Min(A)].map>>

\* NeedsFix with the comparison the wrong way round
NeedsFixMut(old_map_id, actual_map_id) == old_map_id = actual_map_id

\* the test `old_map_id != actual_map_id`
NeedsFix(old_map_id, actual_map_id) == old_map_id # actual_map_id

\* FixMapId without the "already correct?" test and with the replacement
\* written as a plain string, the braces of {actual_map_id} taken literally
FixMapIdMut(content, actual_map_id) ==
    IF AppearanceMatch(content) # <<>>
    THEN [content EXCEPT !.controls =
            [i \in 1..Len(content.controls) |->
                IF IsAppearance(content.controls[i])
                THEN [content.controls[i] EXCEPT !.map = "{actual_map_id}"]
                ELSE content.controls[i]]]
    ELSE content

\* the map-id step: re.sub rewrites the attach target of every block
FixMapId(content, actual_map_id) ==
    LET m == AppearanceMatch(content)
    IN  IF m # <<>> /\ NeedsFix(m[1], actual_map_id)
        THEN [content EXCEPT !.controls =
                [i \in 1..Len(content.controls) |->
                    IF IsAppearance(content.controls[i])
                    THEN [content.controls[i] EXCEPT !.map = actual_map_id]
                    ELSE content.controls[i]]]
        ELSE content

\* ------------------------------------------------------------- input pages
StdHead == [script_anchor |-> TRUE, css_anchor |-> TRUE,
            plugin_scripts |-> 0, plugin_css |-> 0]
BareHead == [script_anchor |-> FALSE, css_anchor |-> FALSE,
             plugin_scripts |-> 0, plugin_css |-> 0]

\* content = "" of a new modifier
EmptyPage == [head |-> BareHead, maps |-> <<>>, tiles |-> <<>>, calls |-> <<>>,
              funcs |-> <<>>, geos |-> <<>>, controls |-> <<>>]

MapChoices == {<<>>, <<OtherMap>>, <<HardCodedMap>>}

TileDecls(n) ==
    [i \in 1..n |-> [id |-> i, opts |-> <<Field("attribution", <<"osm">>)>>]]

Call(t) == [tile |-> t, map |-> OtherMap, depth |-> 0]
RECURSIVE SeqsUpTo(_, _)
SeqsUpTo(S, n) ==
    IF n = 0 THEN {<<>>}
    ELSE LET R == SeqsUpTo(S, n - 1)
         IN  R \cup { Append(r, x) : r \in { q \in R : Len(q) = n - 1 }, x \in S }
CallSeqs == SeqsUpTo({Call(1), Call(2)}, MaxCalls)

\* the functions the exporter writes for one vector layer
LayerKinds == {"none", "empty", "color", "full", "opacity"}
Styler(id, body) == [kind |-> "styler", layer |-> id, rets |-> <<body>>]
Highlighter(id) ==
    [kind |-> "highlighter", layer |-> id,
     rets |-> << <<Field("fillOpacity", <<"0", ".", "9">>)>> >>]
KindFuncs(k, id) ==
    CASE k = "none"    -> <<>>
      [] k = "empty"   -> <<Styler(id, <<>>), Highlighter(id)>>
      [] k = "color"   -> <<Styler(id, <<Field("color", <<"black">>)>>)>>
      [] k = "full"    -> <<Styler(id, <<Field("color", <<"black">>),
                                        Field("fillColor", <<"#ff0000">>),
                                        Field("fillOpacity", <<"0", ".", "3", "5">>)>>),
                            Highlighter(id)>>
      [] k = "opacity" -> <<Styler(id, <<Field("fillOpacity", <<"1">>)>>)>>

GeoDecls(n) ==
    [i \in 1..n |-> [id |-> i, opts |-> <<Field("style", <<"styler">>)>>]]
LayerSeqs == SeqsUpTo({"none", "empty", "full"}, MaxGeo)

\* the display names the legacy block gives the overlays
NameKinds == {"plain", "gt", "amp"}
OverlayName(nk, i) ==
    IF i > 1 THEN <<"Layer ", DigitChar(i)>>
    ELSE CASE nk = "plain" -> <<"Gold">>
           [] nk = "gt"    -> <<"Au ", EscGt, " 5">>
           [] nk = "amp"   -> <<"Cu ", EscAmp, " Zn">>

LegacyBlock(ntiles, ngeo, nk, map) ==
    [kind     |-> "legacy",
     base     |-> [i \in 1..ntiles |-> [name |-> <<"Base ", DigitChar(i)>>, id |-> i]],
     overlays |-> [i \in 1..ngeo |-> [name |-> OverlayName(nk, i), id |-> i]],
     map      |-> map]

MakePage(head, maps, ntiles, calls, kinds, lg) ==
    [head     |-> head,
     maps     |-> maps,
     tiles    |-> TileDecls(ntiles),
     calls    |-> calls,
     funcs    |-> Flatten([i \in 1..Len(kinds) |-> KindFuncs(kinds[i], i)]),
     geos     |-> GeoDecls(Len(kinds)),
     controls |-> IF lg = "absent" THEN <<>>
                  ELSE <<LegacyBlock(ntiles, Len(kinds), lg,
                                     IF maps = <<>> THEN OtherMap ELSE maps[1])>>]

TilePages ==
    { MakePage(StdHead, m, n, <<>>, <<>>, lg) :
        m \in MapChoices, n \in 0..MaxTiles, lg \in {"absent", "plain"} }
CallPages ==
    { MakePage(StdHead, <<OtherMap>>, 2, cs, <<>>, "plain") : cs \in CallSeqs }
GeoPages ==
    { MakePage(StdHead, <<OtherMap>>, 1, <<Call(1)>>, ks, "plain") : ks \in LayerSeqs }
NamePages ==
    { MakePage(h, <<OtherMap>>, 1, <<Call(1)>>, <<k>>, lg) :
        h \in {StdHead, BareHead}, k \in LayerKinds, lg \in {"absent"} \cup NameKinds }
Pages == TilePages \cup CallPages \cup GeoPages \cup NamePages

\* ---------------------------------------------------------------- the state
VARIABLES
    html,           \* index.html: <<page>>, or <<>> when the file does not exist
    backups,        \* index.backup_<ts>.html files: timestamp -> page
    logs,           \* modification_log_<ts>.txt files: timestamp -> lines
    clock,          \* the last value datetime.now() returned, in seconds
    runs,           \* script runs started so far
    pc,             \* the running script and its step
    content,        \* self.content / the local content
    layer_info,     \* the modifier's layer_info
    modifications,  \* self.modifications
    backup_file,    \* the timestamp in the name of this run's backup
    actual_map_id,  \* the fixup pass's actual_map_id
    out,            \* the log lines and diagnostics the running script has printed
    start,          \* index.html as it was when the last run started
    orig,           \* index.html as it was before the first run
    history         \* how the runs so far have ended

vars == <<html, backups, logs, clock, runs, pc, content, layer_info,
          modifications, backup_file, actual_map_id, out, start, orig, history>>

\* ProcessSteps with the backup taken after the page is saved
ProcessStepsMut ==
    <<"load", "extract", "refs", "geo", "control", "save", "backup", "log">>

\* the steps of process(), in its order
ProcessSteps ==
    <<"backup", "load", "extract", "refs", "geo", "control", "save", "log">>
\* the steps of the fixup pass: main's backup, then fix_appearance_control
FixSteps == <<"backup", "load", "names", "addto", "mapid", "save">>

Idle == [script |-> "none", step |-> 0]
At(script, steps, name) ==
    /\ pc.script = script
    /\ pc.step \in 1..Len(steps)
    /\ steps[pc.step] = name
\* the step after the current one; the script ends after its last step
After(steps) == IF pc.step >= Len(steps) THEN Idle ELSE [pc EXCEPT !.step = @ + 1]

\* Exists with the test left out
ExistsMut(f) == TRUE

\* Path.exists()
Exists(f) == f # <<>>

\* shutil.copy2(src, dst): dst is created, or overwritten when it exists
Copy2(files, dst, page) == (dst :> page) @@ files

\* open(path, 'w') + write: the file is created, or truncated and rewritten
WriteFile(files, dst, data) == (dst :> data) @@ files

NoInfo == [geojson_layers |-> <<>>, tile_layers |-> <<>>, layer_names |-> <<>>]

MsgNotFound(script) ==
    Msg(IF script = "modifier" THEN "Error: index.html not found!"
        ELSE "ERROR: index.html not found!", <<>>)
MsgBackup(t) == Msg("Created backup", <<t>>)
MsgLoaded    == Msg("Loaded", <<>>)
MsgSaved     == Msg("Saved modified content", <<>>)
MsgFound(t, g) == Msg("Found tile layers and GeoJSON layers", <<t, g>>)
MsgRefs      == Msg("Added Leaflet.Control.Appearance plugin references", <<>>)
MsgModified(g) == Msg("Modified GeoJSON layers with appearance options", <<g>>)
MsgReplaced  == Msg("Replaced L.control.layers() with L.control.appearance()", <<>>)
MsgNoMap     == Msg("ERROR: Could not find map variable!", <<>>)
MsgFixing    == Msg("Fixing map ID", <<>>)
MsgCorrect   == Msg("Map ID is already correct", <<>>)
MsgNoControl == Msg("WARNING: Could not find appearance control definition!", <<>>)

Init ==
    /\ html \in {<<>>} \cup { <<p>> : p \in Pages }
    /\ backups = <<>>
    /\ logs = <<>>
    /\ clock = 0
    /\ runs = 0
    /\ pc = Idle
    /\ content = EmptyPage
    /\ layer_info = NoInfo
    /\ modifications = <<>>
    /\ backup_file = NoTs
    /\ actual_map_id = ""
    /\ out = <<>>
    /\ start = html
    /\ orig = html
    /\ history = <<>>

\* datetime.now(): the clock never runs backwards
Now == clock..MaxClock

\* self.log(message)
Log(m) ==
    /\ modifications' = Append(modifications, m)
    /\ out' = Append(out, m)

\* a script's main() finds no index.html: it prints and returns
MainMissing(script) ==
    /\ pc = Idle
    /\ runs < MaxRuns
    /\ ~Exists(html)
    /\ runs' = runs + 1
    /\ out' = <<MsgNotFound(script)>>
    /\ start' = html
    /\ history' = Append(history, script \o ":missing")
    /\ UNCHANGED <<html, backups, logs, clock, pc, content, layer_info,
                   modifications, backup_file, actual_map_id, orig>>

\* a script's main() finds index.html and goes on
MainStart(script) ==
    /\ pc = Idle
    /\ runs < MaxRuns
    /\ Exists(html)
    /\ runs' = runs + 1
    /\ pc' = [script |-> script, step |-> 1]
    /\ content' = EmptyPage
    /\ layer_info' = NoInfo
    /\ modifications' = <<>>
    /\ backup_file' = NoTs
    /\ actual_map_id' = ""
    /\ out' = <<>>
    /\ start' = html
    /\ UNCHANGED <<html, backups, logs, clock, orig, history>>

ModMainMissing == MainMissing("modifier")
ModMainStart   == MainStart("modifier")
FixMainMissing == MainMissing("fixup")
FixMainStart   == MainStart("fixup")

\* the end of a run, when the step taken was the script's last
Ending(steps, how) ==
    history' = IF After(steps) = Idle THEN Append(history, how) ELSE history

\* backup_original
ModBackup ==
    /\ At("modifier", ProcessSteps, "backup")
    /\ \E timestamp \in Now :
        /\ clock' = timestamp
        /\ backups' = Copy2(backups, timestamp, html[1])
        /\ backup_file' = timestamp
        /\ Log(MsgBackup(timestamp))
    /\ pc' = After(ProcessSteps)
    /\ Ending(ProcessSteps, "modifier")
    /\ UNCHANGED <<html, logs, runs, content, layer_info, actual_map_id,
                   start, orig>>

\* load_content
ModLoad ==
    /\ At("modifier", ProcessSteps, "load")
    /\ content' = html[1]
    /\ Log(MsgLoaded)
    /\ pc' = After(ProcessSteps)
    /\ Ending(ProcessSteps, "modifier")
    /\ UNCHANGED <<html, backups, logs, clock, runs, layer_info, backup_file,
                   actual_map_id, start, orig>>

\* extract_layer_info
ModExtract ==
    /\ At("modifier", ProcessSteps, "extract")
    /\ layer_info' = ExtractLayerInfo(content)
    /\ Log(MsgFound(Len(TileLayers(content)), Len(GeoJsonLayers(content))))
    /\ pc' = After(ProcessSteps)
    /\ Ending(ProcessSteps, "modifier")
    /\ UNCHANGED <<html, backups, logs, clock, runs, content, backup_file,
                   actual_map_id, start, orig>>

\* add_plugin_references
ModRefs ==
    /\ At("modifier", ProcessSteps, "refs")
    /\ content' = AddPluginReferences(content)
    /\ Log(MsgRefs)
    /\ pc' = After(ProcessSteps)
    /\ Ending(ProcessSteps, "modifier")
    /\ UNCHANGED <<html, backups, logs, clock, runs, layer_info, backup_file,
                   actual_map_id, start, orig>>

\* modify_geojson_layers, every re.sub accepted
ModGeo ==
    /\ At("modifier", ProcessSteps, "geo")
    /\ ModifyGeojsonLayers(content, layer_info).ok
    /\ content' = ModifyGeojsonLayers(content, layer_info).content
    /\ Log(MsgModified(Len(layer_info.geojson_layers)))
    /\ pc' = After(ProcessSteps)
    /\ Ending(ProcessSteps, "modifier")
    /\ UNCHANGED <<html, backups, logs, clock, runs, layer_info, backup_file,
                   actual_map_id, start, orig>>

\* modify_geojson_layers, a re.sub raises: nothing catches it, the run ends
ModGeoRaise ==
    /\ At("modifier", ProcessSteps, "geo")
    /\ ~ModifyGeojsonLayers(content, layer_info).ok
    /\ content' = ModifyGeojsonLayers(content, layer_info).content
    /\ pc' = Idle
    /\ history' = Append(history, "modifier:raised")
    /\ UNCHANGED <<html, backups, logs, clock, runs, layer_info, modifications,
                   backup_file, actual_map_id, out, start, orig>>

\* replace_layer_control
ModControl ==
    /\ At("modifier", ProcessSteps, "control")
    /\ content' = ReplaceLayerControl(content, layer_info)
    /\ Log(MsgReplaced)
    /\ pc' = After(ProcessSteps)
    /\ Ending(ProcessSteps, "modifier")
    /\ UNCHANGED <<html, backups, logs, clock, runs, layer_info, backup_file,
                   actual_map_id, start, orig>>

\* save_content
ModSave ==
    /\ At("modifier", ProcessSteps, "save")
    /\ html' = <<content>>
    /\ Log(MsgSaved)
    /\ pc' = After(ProcessSteps)
    /\ Ending(ProcessSteps, "modifier")
    /\ UNCHANGED <<backups, logs, clock, runs, content, layer_info, backup_file,
                   actual_map_id, start, orig>>

\* save_log
ModLog ==
    /\ At("modifier", ProcessSteps, "log")
    /\ \E timestamp \in Now :
        /\ clock' = timestamp
        /\ logs' = WriteFile(logs, timestamp, modifications)
    /\ pc' = After(ProcessSteps)
    /\ Ending(ProcessSteps, "modifier")
    /\ UNCHANGED <<html, backups, runs, content, layer_info, modifications,
                   backup_file, actual_map_id, out, start, orig>>

\* backup_file(html_file), called by the fixup pass's main
FixBackup ==
    /\ At("fixup", FixSteps, "backup")
    /\ \E timestamp \in Now :
        /\ clock' = timestamp
        /\ backups' = Copy2(backups, timestamp, html[1])
        /\ backup_file' = timestamp
        /\ out' = Append(out, MsgBackup(timestamp))
    /\ pc' = After(FixSteps)
    /\ Ending(FixSteps, "fixup")
    /\ UNCHANGED <<html, logs, runs, content, layer_info, modifications,
                   actual_map_id, start, orig>>

\* fix_appearance_control reads the file and finds the map variable
FixLoad ==
    /\ At("fixup", FixSteps, "load")
    /\ MapMatch(html[1]) # <<>>
    /\ content' = html[1]
    /\ actual_map_id' = MapMatch(html[1])[1]
    /\ pc' = After(FixSteps)
    /\ Ending(FixSteps, "fixup")
    /\ UNCHANGED <<html, backups, logs, clock, runs, layer_info, modifications,
                   backup_file, out, start, orig>>

\* fix_appearance_control reads the file, finds no map variable and returns
FixLoadNoMap ==
    /\ At("fixup", FixSteps, "load")
    /\ MapMatch(html[1]) = <<>>
    /\ content' = html[1]
    /\ out' = Append(out, MsgNoMap)
    /\ pc' = Idle
    /\ history' = Append(history, "fixup:nomap")
    /\ UNCHANGED <<html, backups, logs, clock, runs, layer_info, modifications,
                   backup_file, actual_map_id, start, orig>>

\* the loop that adds the name property to the tile layers
FixNames ==
    /\ At("fixup", FixSteps, "names")
    /\ content' = NameTileLayers(content)
    /\ pc' = After(FixSteps)
    /\ Ending(FixSteps, "fixup")
    /\ UNCHANGED <<html, backups, logs, clock, runs, layer_info, modifications,
                   backup_file, actual_map_id, out, start, orig>>

\* the tile-layer .addTo() calls but the first are commented out
FixAddTo ==
    /\ At("fixup", FixSteps, "addto")
    /\ content' = CommentOutAddTo(content)
    /\ pc' = After(FixSteps)
    /\ Ending(FixSteps, "fixup")
    /\ UNCHANGED <<html, backups, logs, clock, runs, layer_info, modifications,
                   backup_file, actual_map_id, out, start, orig>>

\* the map ID of the appearance control
FixMap ==
    /\ At("fixup", FixSteps, "mapid")
    /\ content' = FixMapId(content, actual_map_id)
    /\ out' = Append(out,
                IF AppearanceMatch(content) = <<>> THEN MsgNoControl
                ELSE IF NeedsFix(AppearanceMatch(content)[1], actual_map_id)
                     THEN MsgFixing ELSE MsgCorrect)
    /\ pc' = After(FixSteps)
    /\ Ending(FixSteps, "fixup")
    /\ UNCHANGED <<html, backups, logs, clock, runs, layer_info, modifications,
                   backup_file, actual_map_id, start, orig>>

\* the fixed content is written back
FixSave ==
    /\ At("fixup", FixSteps, "save")
    /\ html' = <<content>>
    /\ pc' = After(FixSteps)
    /\ Ending(FixSteps, "fixup")
    /\ UNCHANGED <<backups, logs, clock, runs, content, layer_info, modifications,
                   backup_file, actual_map_id, out, start, orig>>

Next ==
    \/ ModMainMissing
    \/ ModMainStart
    \/ ModBackup
    \/ ModLoad
    \/ ModExtract
    \/ ModRefs
    \/ ModGeo
    \/ ModGeoRaise
    \/ ModControl
    \/ ModSave
    \/ ModLog
    \/ FixMainMissing
    \/ FixMainStart
    \/ FixBackup
    \/ FixLoad
    \/ FixLoadNoMap
    \/ FixNames
    \/ FixAddTo
    \/ FixMap
    \/ FixSave

Spec == Init /\ [][Next]_vars

\* ------------------------------------------------------------------ claims
Last(h) == h[Len(h)]
\* the last run ran to its end as `how`
Ended(how) == pc = Idle /\ history # <<>> /\ Last(history) = how
\* the run in progress, or the last one, is a run of the fixup pass
InFixRun ==
    \/ pc.script = "fixup"
    \/ pc = Idle /\ history # <<>> /\ Last(history) \in {"fixup", "fixup:nomap"}
\* the run in progress has just taken the step `name` of the modifier
JustDid(name) ==
    /\ pc.script = "modifier"
    /\ pc.step > 1
    /\ ProcessSteps[pc.step - 1] = name
\* the run in progress, or the last one, has written index.html
SaveDone ==
    \/ pc.script = "modifier"
        /\ \E i \in 1..Len(ProcessSteps) : ProcessSteps[i] = "save" /\ pc.step > i
    \/ pc.script = "fixup"
        /\ \E i \in 1..Len(FixSteps) : FixSteps[i] = "save" /\ pc.step > i
    \/ Ended("modifier")
    \/ Ended("fixup")
\* the attach targets of the appearance-control blocks of a page, in order
Targets(p) ==
    LET A == { i \in 1..Len(p.controls) : IsAppearance(p.controls[i]) }
        RECURSIVE Pick(_)
        Pick(i) == IF i > Len(p.controls) THEN <<>>
                   ELSE (IF i \in A THEN <<p.controls[i].map>> ELSE <<>>) \o Pick(i + 1)
    IN  Pick(1)
LegacyCount(p) == Cardinality({ i \in 1..Len(p.controls) : IsLegacy(p.controls[i]) })

\* C1: in a run of either script, index.html is not written before the run
\* has made its backup, and that backup holds the page as it was when the run
\* started.
C1_BackupBeforeWrite ==
    (SaveDone \/ (pc.script # "none" /\ html # start)) =>
        /\ backup_file \in DOMAIN backups
        /\ backups[backup_file] = start[1]
C1_Witness ==
    /\ Ended("fixup")
    /\ html # start
    /\ backup_file \in DOMAIN backups
    /\ backups[backup_file] = start[1]

\* C2: when index.html does not exist, a run of either script only prints its
\* diagnostic: no backup, no log, no index.html, and the run is over.
C2_MissingFileNoFiles ==
    orig = <<>> =>
        /\ html = <<>>
        /\ DOMAIN backups = {}
        /\ DOMAIN logs = {}
        /\ pc = Idle
        /\ runs > 0 => out \in {<<MsgNotFound("modifier")>>, <<MsgNotFound("fixup")>>}
C2_Witness ==
    /\ orig = <<>>
    /\ history = <<"modifier:missing", "fixup:missing">>
    /\ out = <<MsgNotFound("fixup")>>

C4_NoMapNoChange ==
    (InFixRun /\ start # <<>> /\ start[1].maps = <<>>) => html = start
C4_Witness ==
    /\ Ended("fixup:nomap")
    /\ start[1].maps = <<>>
    /\ Len(start[1].tiles) >= 2
    /\ html = start
    /\ out[Len(out)] = MsgNoMap

\* the fields the returns of the layer's own styler function hold
StylerFields(p, id) ==
    LET S == { i \in 1..Len(p.funcs) :
                 p.funcs[i].kind = "styler" /\ p.funcs[i].layer = id }
        RECURSIVE Pick(_)
        Pick(i) == IF i > Len(p.funcs) THEN <<>>
                   ELSE (IF i \in S THEN Flatten(p.funcs[i].rets) ELSE <<>>) \o Pick(i + 1)
    IN  Pick(1)

\* C5: after the modifier's rewrite step every vector layer found by the
\* extraction has name, color and opacity as the first three fields of its
\* options; opacity is the fillOpacity of the layer's styler function, 0.6
\* when there is no styler or no fillOpacity; color is the styler's fillColor,
\* #000000 when absent.
C5_OptionsFromStyler ==
    JustDid("geo") =>
        \A k \in 1..Len(layer_info.geojson_layers) :
        \A g \in 1..Len(content.geos) :
            content.geos[g].id = layer_info.geojson_layers[k] =>
                LET o  == content.geos[g].opts
                    f  == StylerFields(start[1], content.geos[g].id)
                    fc == FirstVal(f, "fillColor")
                    fo == FirstVal(f, "fillOpacity")
                IN  /\ Len(o) >= 3
                    /\ o[1].key = "name"
                    /\ o[2].key = "color"
                    /\ o[3].key = "opacity"
                    /\ o[2].val = (IF fc = <<>> THEN <<"#000000">> ELSE fc)
                    /\ ParseFloat(o[3].val) = (IF fo = <<>> THEN 60 ELSE ParseFloat(fo))

\* C6: a fixup run on a page whose appearance-control attach target already
\* is the declared map variable leaves the target as it is, and of two fixup
\* runs in a row the second leaves the target as the first left it.
C6_MapIdStable ==
    /\ (/\ InFixRun
        /\ start # <<>>
        /\ start[1].maps # <<>>
        /\ Targets(start[1]) # <<>>
        /\ Targets(start[1])[1] = start[1].maps[1]) =>
            Targets(html[1]) = Targets(start[1])
    /\ (/\ Ended("fixup")
        /\ Len(history) >= 2
        /\ history[Len(history) - 1] = "fixup") =>
            Targets(html[1]) = Targets(start[1])
C6_Witness ==
    /\ Ended("fixup")
    /\ history = <<"modifier", "fixup", "fixup">>
    /\ orig[1].maps = <<OtherMap>>
    /\ Targets(start[1]) = <<OtherMap>>
    /\ Targets(html[1]) = <<OtherMap>>
    /\ out[Len(out)] = MsgCorrect

\* the label the claim gives the i-th tile layer
ClaimedLabel(i) ==
    CASE i = 1 -> "OpenStreetMap" [] i = 2 -> "Topographic Map"
      [] i = 3 -> "Light Map" [] i = 4 -> "Satellite Imagery"

\* C7: a fixup run gives the i-th tile layer of the page the i-th of the four
\* labels, for i in 1..4, and gives a tile layer at position 5 or later no
\* name field.
C7_FourPositionalNames ==
    Ended("fixup") =>
        /\ Len(html[1].tiles) = Len(start[1].tiles)
        /\ \A i \in 1..Len(start[1].tiles) :
            html[1].tiles[i].opts =
                (IF i <= 4 THEN <<Field("name", <<ClaimedLabel(i)>>)>> ELSE <<>>)
                    \o start[1].tiles[i].opts
C7_Witness ==
    /\ Ended("fixup")
    /\ Len(start[1].tiles) = 5
    /\ html[1].tiles[4].opts[1] = Field("name", <<"Satellite Imagery">>)
    /\ html[1].tiles[5].opts = start[1].tiles[5].opts
    /\ Cardinality({ i \in 1..5 : html[1].tiles[i].opts # start[1].tiles[i].opts }) = 4

\* C8: a fixup run on a page with more than one tile-layer attach call leaves
\* the first call of the page active and every other one commented out; with
\* at most one call it changes none.
C8_OnlyFirstCallActive ==
    Ended("fixup") =>
        IF Len(start[1].calls) > 1
        THEN /\ html[1].calls[1].depth = 0
             /\ \A i \in 2..Len(html[1].calls) : html[1].calls[i].depth > 0
        ELSE html[1].calls = start[1].calls

WarningTexts == {MsgNoControl.text, MsgNoMap.text}

\* C9: when the page holds no legacy control block, the modifier's
\* control-replacement step leaves the page as it is, and the log has a
\* warning for the step and no record of a replacement.
C9_WarningWhenNoLegacy ==
    (JustDid("control") /\ LegacyCount(start[1]) = 0) =>
        /\ content.controls = start[1].controls
        /\ \A i \in 1..Len(modifications) : modifications[i] # MsgReplaced
        /\ \E i \in 1..Len(modifications) : modifications[i].text \in WarningTexts

\* C10: no step changes or removes a backup file that exists, and once a
\* backup exists some backup holds the page as it was before the first run.
C10_BackupsNeverChange ==
    [][/\ \A ts \in DOMAIN backups :
            ts \in DOMAIN backups' /\ backups'[ts] = backups[ts]
       /\ DOMAIN backups' # {} =>
            \E ts \in DOMAIN backups' : backups'[ts] = orig[1]]_vars

====
